---- MODULE Spec2Model ----
(***************************************************************************)
(* The offline form queue of the Rock Living Water service worker          *)
(* (src/service-worker.js): the IndexedDB store "formQueue" with its key   *)
(* generator, the queue-form message handler, and syncForms, the pass that *)
(* replays the queued submissions.  A pass is an async function: each      *)
(* action below is one run of it from one await to the next.               *)
(***************************************************************************)
EXTENDS Integers, Sequences, FiniteSets, TLC

\* ---------------------------------------------------------------- bounds
\* number of records the key generator hands out before the model stops adding
MaxId == 2
\* number of syncForms executions that can be in flight at once
NumPasses == 2
\* the per-record fetch counter saturates here
MaxFetch == 4
\* number of window clients returned by clients.matchAll()
NumClients == 1

\* number of OfflineManager.syncPendingForms executions that can be in flight
NumFgPasses == 2
\* number of forms OfflineManager.queueForm stamps before the model stops queueing
MaxForms == 2
\* number of DataManager.submitForm executions that can be in flight
NumSubmits == 1

\* number of fetch events the fetch listener can have in flight
NumFetchEvents == 2

Ids == 1..MaxId
FetchEvents == 1..NumFetchEvents
FgPasses == 1..NumFgPasses
Submits == 1..NumSubmits
Passes == 1..NumPasses
Clients == 1..NumClients

\* ------------------------------------------------------ values and inputs
\* a property that is missing from an object
Undefined == "undefined"
\* a numeric property that is missing from an object
NoNumber == -1
\* the literal {} of line 69
EmptyObject == "{}"

\* a || b on strings and objects: "" and undefined are falsy
OrElse(a, b) == IF a \in {Undefined, ""} THEN b ELSE a

\* a || b on numbers: 0 and undefined are falsy
OrElseNum(a, b) == IF a \in {NoNumber, 0} THEN b ELSE a

\* a headers property that is missing from an object
NoHeaders == [undefined |-> "undefined"]

\* the literal of line 68
DefaultHeaders == [h \in {"Content-Type"} |-> "application/json"]

\* a || b on headers objects: every object is truthy, undefined is falsy
OrElseHeaders(a, b) == IF a = NoHeaders THEN b ELSE a

\* the content of the page's csrf-token meta tag
getCSRFToken == "csrf-1"

\* the arguments DataManager.submitForm hands to OfflineManager.queueForm
Submissions ==
  { [url |-> "/api/addSale", method |-> "POST", data |-> "sale-data", formId |-> "saleForm"],
    [url |-> "/api/addExpense", method |-> "POST", data |-> "expense-data", formId |-> "expenseForm"] }

\* the message OfflineManager.queueForm posts to the service worker
QueueFormMessage(f) ==
  [type |-> "queue-form",
   formData |-> [url |-> f.url, method |-> f.method, data |-> f.data, formId |-> f.formId,
                 headers |-> NoHeaders, body |-> Undefined, timestamp |-> Undefined,
                 attempts |-> NoNumber, csrfToken |-> getCSRFToken]]

\* the values localStorage.getItem('csrfToken') || '' can have
StoredTokens == {"", "csrf-0"}

\* the headers literal the class DataManager.submitForm queues with a form
SubmitHeaders(token) ==
  [h \in {"Content-Type", "X-CSRF-Token", "Authorization"} |->
     CASE h = "Content-Type" -> "application/json"
       [] h = "X-CSRF-Token" -> token
       [] OTHER -> "Bearer "]

\* the message OfflineManager.queueForm posts for the object the class
\* DataManager.submitForm hands it: headers and body, no data
QueueFormMessageWithHeaders(f, token) ==
  [type |-> "queue-form",
   formData |-> [url |-> f.url, method |-> "POST", data |-> Undefined, formId |-> f.formId,
                 headers |-> SubmitHeaders(token), body |-> f.data, timestamp |-> Undefined,
                 attempts |-> NoNumber, csrfToken |-> getCSRFToken]]

\* what fetch can do with a replay request
FetchOutcomes == {"2xx", "non2xx", "throws"}

\* response.ok of a resolved fetch
ResponseOk(outcome) == outcome = "2xx"

\* how a call of an IndexedDBHelper method can end: resolved, or rejected
\* because the database could not be opened (line 55) or a request failed
\* (lines 83, 100, 120, 144); a failed request aborts its transaction
StoreResults == {"ok", "openFails", "requestFails"}

\* the tag of a sync event
SyncTags == {"sync-form-submissions"}

\* the attempt bound of line 258
MaxAttempts == 3

VARIABLES
  store,       \* object store formQueue: id -> record
  nextId,      \* the store's key generator (autoIncrement)
  everIds,     \* history: every key that has been in the store
  pc,          \* per pass: where the execution of syncForms stands
  queue,       \* per pass: the result of getQueue, as read
  i,           \* per pass: index in queue of the record under evaluation
  successfulSubmissions, \* per pass
  failedSubmissions,     \* per pass
  responses,   \* per pass, history: the outcome of each fetch of the pass
  fetchCount,  \* history: fetch calls issued by syncForms per record id
  emitted,     \* the messages, toasts, logs and results of the latest step
  offline,     \* page: Store.state.uiState.offline
  controller,  \* page: navigator.serviceWorker.controller is set
  formQueue,   \* page: the localforage item formQueue
  clock,       \* page: the time of the latest timestamp taken by queueForm
  fpc,         \* per syncPendingForms execution: where it stands
  forms,       \* per syncPendingForms execution: the array read, which the loop iterates
  fi,          \* per syncPendingForms execution: index of the form under evaluation
  kept,        \* per syncPendingForms execution: the indices still in its variable queue
  spc,         \* per submitForm execution: where it stands
  sform,       \* per submitForm execution: its argument
  squeue,      \* per submitForm execution: the variable queue of queueForm
  cache,       \* the Cache Storage: request url -> cached response
  putting,     \* the cache.put calls of the fetch listener that have not settled
  hpc,         \* per fetch event: where its respondWith promise stands
  hurl         \* per fetch event: the url of its request

passVars == <<pc, queue, i, successfulSubmissions, failedSubmissions, responses>>

swVars == <<store, nextId, everIds, passVars, fetchCount>>

fgVars == <<offline, controller, formQueue, clock, fpc, forms, fi, kept, spc, sform, squeue>>

cacheVars == <<cache, putting, hpc, hurl>>

vars == <<swVars, emitted, fgVars, cacheVars>>

\* ------------------------------------------------------------- the store
Min(a, b) == IF a < b THEN a ELSE b

SetMin(S) == CHOOSE x \in S : \A y \in S : x <= y

RECURSIVE KeysInOrder(_)
KeysInOrder(S) ==
  IF S = {} THEN <<>>
  ELSE LET k == SetMin(S) IN <<k>> \o KeysInOrder(S \ {k})

Range(s) == { s[k] : k \in DOMAIN s }

\* the records in descending key order
GetAllDescending(s) ==
  LET keys == KeysInOrder(DOMAIN s)
  IN  [k \in 1..Len(keys) |-> s[keys[Len(keys) + 1 - k]]]

\* store.getAll(): the records in ascending key order
GetAll(s) ==
  LET keys == KeysInOrder(DOMAIN s)
  IN  [k \in 1..Len(keys) |-> s[keys[k]]]

\* a key derived from the keys now in the store instead of the generator
GeneratedKeyFromContent(s, n) ==
  IF DOMAIN s = {} THEN 1 ELSE (CHOOSE x \in DOMAIN s : \A y \in DOMAIN s : y <= x) + 1

\* the key the generator gives to a record added without an id
GeneratedKey(s, n) == n

\* an add that replaces the content of the store by the new record
StoreAddReplacing(s, n, submission) ==
  [k \in {GeneratedKey(s, n)} |-> [id |-> k] @@ submission]

\* store.add(submission) on a store with keyPath id and autoIncrement
StoreAdd(s, n, submission) ==
  LET key == GeneratedKey(s, n)
      rec == [id |-> key] @@ submission
  IN  [k \in DOMAIN s \cup {key} |-> IF k = key THEN rec ELSE s[k]]

\* store.delete(id) for each id of a set
StoreDelete(s, ids) == [k \in DOMAIN s \ ids |-> s[k]]

\* a put that stamps the record anew
StorePutRestamping(s, rec) ==
  [k \in DOMAIN s \cup {rec.id} |-> IF k = rec.id THEN [rec EXCEPT !.timestamp = "later"] ELSE s[k]]

\* store.put(record): insert or overwrite under the record's id
StorePut(s, rec) == [k \in DOMAIN s \cup {rec.id} |-> IF k = rec.id THEN rec ELSE s[k]]

\* an update that writes the list as the whole content of the store
StorePutAllReplacing(s, recs) == [k \in { r.id : r \in Range(recs) } |->
                                   (CHOOSE r \in Range(recs) : r.id = k)]

RECURSIVE StorePutAll(_, _)
StorePutAll(s, recs) ==
  IF recs = <<>> THEN s ELSE StorePutAll(StorePut(s, Head(recs)), Tail(recs))

\* the submission object addToQueue builds from the message's formData
Submission(formData) ==
  [url |-> formData.url,
   method |-> OrElse(formData.method, "POST"),
   headers |-> OrElseHeaders(formData.headers, DefaultHeaders),
   body |-> OrElse(formData.body, EmptyObject),
   formId |-> formData.formId,
   timestamp |-> OrElse(formData.timestamp, "now"),
   attempts |-> OrElseNum(formData.attempts, 0),
   csrfToken |-> OrElse(formData.csrfToken, "")]

\* --------------------------------------------------------------- messages
PortReply(msg, body) == [to |-> "port", client |-> 0, of |-> msg.formData, msg |-> body]

FormsSynced(c, count, failed) ==
  [to |-> "client", client |-> c, of |-> Undefined,
   msg |-> [type |-> "forms-synced", count |-> count, failed |-> failed]]

\* JSON.stringify(value): the text of the value
JSONStringify(value) == [json |-> value]

\* the arguments of the fetch call of lines 263-271: in the headers literal the
\* spread of formData.headers comes last, so its entries win
ReplayRequest(formData) ==
  [url |-> formData.url,
   method |-> formData.method,
   headers |-> formData.headers @@ [h \in {"Content-Type", "X-CSRF-Token"} |->
                 IF h = "Content-Type" THEN "application/json"
                 ELSE OrElse(formData.csrfToken, "")],
   body |-> JSONStringify(formData.body)]

\* the replay request goes out to the network
Fetch(formData) ==
  [to |-> "network", client |-> 0, of |-> Undefined, msg |-> ReplayRequest(formData)]

\* the promise syncForms returned to event.waitUntil is rejected
Rejected == [to |-> "waitUntil", client |-> 0, of |-> Undefined, msg |-> [type |-> "rejected"]]

\* the promise syncForms returned to event.waitUntil is fulfilled
Fulfilled == [to |-> "waitUntil", client |-> 0, of |-> Undefined, msg |-> [type |-> "fulfilled"]]

\* the page after DOMContentLoaded, with nothing queued
FgInit ==
  /\ formQueue = <<>>
  /\ clock = 0
  /\ fpc = [p \in FgPasses |-> "idle"]
  /\ forms = [p \in FgPasses |-> <<>>]
  /\ fi = [p \in FgPasses |-> 0]
  /\ kept = [p \in FgPasses |-> {}]
  /\ spc = [s \in Submits |-> "idle"]
  /\ sform = [s \in Submits |-> Undefined]
  /\ squeue = [s \in Submits |-> <<>>]

\* the service worker after activation, with an empty store
SwInit ==
  /\ store = [k \in {} |-> Undefined]
  /\ nextId = 1
  /\ everIds = {}
  /\ pc = [p \in Passes |-> "idle"]
  /\ queue = [p \in Passes |-> <<>>]
  /\ i = [p \in Passes |-> 0]
  /\ successfulSubmissions = [p \in Passes |-> <<>>]
  /\ failedSubmissions = [p \in Passes |-> <<>>]
  /\ responses = [p \in Passes |-> <<>>]
  /\ fetchCount = [id \in Ids |-> 0]
  /\ emitted = <<>>
  /\ cache = [u \in {} |-> Undefined]
  /\ putting = {}
  /\ hpc = [e \in FetchEvents |-> "idle"]
  /\ hurl = [e \in FetchEvents |-> Undefined]

\* the service worker with a page that was loaded online and is controlled
Init ==
  /\ SwInit
  /\ FgInit
  /\ offline = FALSE
  /\ controller = TRUE

\* a handler that answers success whatever addToQueue did
ReplyAlwaysSuccess(result) == [success |-> TRUE]

\* lines 239-245: the reply for a resolved or a rejected addToQueue
Reply(result) ==
  IF result = "ok" THEN [success |-> TRUE] ELSE [success |-> FALSE, error |-> result]

\* the message listener with IndexedDBHelper.addToQueue, for a queue-form message
OnMessage(msg, result) ==
  /\ msg.type = "queue-form"
  /\ nextId <= MaxId
  /\ IF result = "ok"
     THEN LET formData == [msg.formData EXCEPT !.csrfToken = OrElse(@, "")]
          IN  /\ store' = StoreAdd(store, nextId, Submission(formData))
              /\ nextId' = nextId + 1
              /\ everIds' = everIds \cup DOMAIN store'
              /\ emitted' = <<PortReply(msg, Reply(result))>>
     ELSE /\ emitted' = <<PortReply(msg, Reply(result))>>
          /\ UNCHANGED <<store, nextId, everIds>>
  /\ UNCHANGED <<passVars, fetchCount, fgVars, cacheVars>>

\* a store call of pass p rejects: syncForms has no handler, so its promise
\* rejects and its local variables are gone
Reject(p) ==
  /\ pc' = [pc EXCEPT ![p] = "idle"]
  /\ queue' = [queue EXCEPT ![p] = <<>>]
  /\ i' = [i EXCEPT ![p] = 0]
  /\ successfulSubmissions' = [successfulSubmissions EXCEPT ![p] = <<>>]
  /\ failedSubmissions' = [failedSubmissions EXCEPT ![p] = <<>>]
  /\ responses' = [responses EXCEPT ![p] = <<>>]
  /\ emitted' = <<Rejected>>
  /\ UNCHANGED <<store, nextId, everIds, fetchCount, fgVars, cacheVars>>

\* the sync listener: a sync event with the forms tag starts syncForms
SyncEvent(p, tag) ==
  /\ tag = "sync-form-submissions"
  /\ pc[p] = "idle"
  /\ pc' = [pc EXCEPT ![p] = "getQueue"]
  /\ emitted' = <<>>
  /\ UNCHANGED <<store, nextId, everIds, queue, i, successfulSubmissions,
                 failedSubmissions, responses, fetchCount, fgVars, cacheVars>>

\* a loop that gives no record up
AtBoundNever(formData) == FALSE

\* line 258: the record has used up its attempts
AtBound(formData) == formData.attempts >= MaxAttempts

\* a loop that a failure brings to its end
RunLoopAborting(q, k, failed) ==
  IF k > Len(q) \/ failed # <<>> THEN [i |-> k, failed |-> failed, fetching |-> FALSE]
  ELSE IF AtBound(q[k])
       THEN [i |-> k + 1, failed |-> Append(failed, q[k]), fetching |-> FALSE]
  ELSE [i |-> k, failed |-> failed, fetching |-> TRUE]

\* the for loop of syncForms from index k up to its next await: records
\* at the attempt bound go to the failed list, the first other record is fetched
RECURSIVE RunLoop(_, _, _)
RunLoop(q, k, failed) ==
  IF k > Len(q) THEN [i |-> k, failed |-> failed, fetching |-> FALSE]
  ELSE IF AtBound(q[k]) THEN RunLoop(q, k + 1, Append(failed, q[k]))
  ELSE [i |-> k, failed |-> failed, fetching |-> TRUE]

\* a pass without the early return
ReturnsOnEmptyNever(q) == FALSE

\* line 252
ReturnsOnEmpty(q) == Len(q) = 0

\* the pass continues after an await with the loop at index k
Continue(p, q, k, failed) ==
  LET run == RunLoop(q, k, failed)
  IN  /\ i' = [i EXCEPT ![p] = run.i]
      /\ failedSubmissions' = [failedSubmissions EXCEPT ![p] = run.failed]
      /\ pc' = [pc EXCEPT ![p] = IF run.fetching THEN "fetch" ELSE "removeFromQueue"]
      /\ fetchCount' = IF run.fetching
                       THEN [fetchCount EXCEPT ![q[run.i].id] = Min(@ + 1, MaxFetch)]
                       ELSE fetchCount
      /\ emitted' = IF run.fetching THEN <<Fetch(q[run.i])>> ELSE <<>>

\* getQueue resolves: the pass reads the store, returns if it is empty,
\* and otherwise enters the loop
GetQueueDone(p) ==
  /\ pc[p] = "getQueue"
  /\ LET q == GetAll(store)
     IN  IF ReturnsOnEmpty(q)
         THEN /\ pc' = [pc EXCEPT ![p] = "idle"]
              /\ emitted' = <<Fulfilled>>
              /\ UNCHANGED <<queue, i, failedSubmissions, fetchCount>>
         ELSE /\ queue' = [queue EXCEPT ![p] = q]
              /\ Continue(p, q, 1, <<>>)
  /\ UNCHANGED <<store, nextId, everIds, successfulSubmissions, responses, fgVars, cacheVars>>

\* a failed replay that leaves the counter alone
IncrementedNot(formData) == formData

\* lines 276 and 281: the record with its attempts counter incremented
Incremented(formData) == [formData EXCEPT !.attempts = OrElseNum(@, 0) + 1]

\* the fetch of record i resolves or throws; the record is classified
\* and the loop goes on
FetchDone(p, outcome) ==
  /\ pc[p] = "fetch"
  /\ LET formData == queue[p][i[p]]
         ok == outcome # "throws" /\ ResponseOk(outcome)
     IN  /\ successfulSubmissions' =
               [successfulSubmissions EXCEPT ![p] = IF ok THEN Append(@, formData) ELSE @]
         /\ Continue(p, queue[p], i[p] + 1,
                     IF ok THEN failedSubmissions[p]
                     ELSE Append(failedSubmissions[p], Incremented(formData)))
  /\ responses' = [responses EXCEPT ![p] = Append(@, [id |-> queue[p][i[p]].id, outcome |-> outcome])]
  /\ UNCHANGED <<store, nextId, everIds, queue, fgVars, cacheVars>>

\* getQueue rejects
GetQueueFails(p) ==
  /\ pc[p] = "getQueue"
  /\ Reject(p)

\* removeFromQueue or updateQueue rejects; with an empty list they return
\* before they open the database (lines 110, 134)
StoreCallFails(p) ==
  /\ \/ pc[p] = "removeFromQueue" /\ successfulSubmissions[p] # <<>>
     \/ pc[p] = "updateQueue" /\ failedSubmissions[p] # <<>>
  /\ Reject(p)

\* line 286: removeFromQueue(successfulSubmissions)
RemoveFromQueue(p) ==
  /\ pc[p] = "removeFromQueue"
  /\ store' = StoreDelete(store, { r.id : r \in Range(successfulSubmissions[p]) })
  /\ pc' = [pc EXCEPT ![p] = "updateQueue"]
  /\ emitted' = <<>>
  /\ UNCHANGED <<nextId, everIds, queue, i, successfulSubmissions, failedSubmissions,
                 responses, fetchCount, fgVars, cacheVars>>

\* line 287: updateQueue(failedSubmissions)
UpdateQueue(p) ==
  /\ pc[p] = "updateQueue"
  /\ store' = StorePutAll(store, failedSubmissions[p])
  /\ everIds' = everIds \cup DOMAIN store'
  /\ nextId' = nextId
  /\ pc' = [pc EXCEPT ![p] = "matchAll"]
  /\ emitted' = <<>>
  /\ UNCHANGED <<queue, i, successfulSubmissions, failedSubmissions, responses, fetchCount,
                 fgVars, cacheVars>>

\* lines 289-296: the summary is posted to every client and syncForms returns
PostFormsSynced(p) ==
  /\ pc[p] = "matchAll"
  /\ emitted' = [c \in Clients |->
                   FormsSynced(c, Len(successfulSubmissions[p]), Len(failedSubmissions[p]))]
                 \o <<Fulfilled>>
  /\ pc' = [pc EXCEPT ![p] = "idle"]
  /\ queue' = [queue EXCEPT ![p] = <<>>]
  /\ i' = [i EXCEPT ![p] = 0]
  /\ successfulSubmissions' = [successfulSubmissions EXCEPT ![p] = <<>>]
  /\ failedSubmissions' = [failedSubmissions EXCEPT ![p] = <<>>]
  /\ responses' = [responses EXCEPT ![p] = <<>>]
  /\ UNCHANGED <<store, nextId, everIds, fetchCount, fgVars, cacheVars>>

PassStep(p) ==
  \/ GetQueueDone(p)
  \/ \E outcome \in FetchOutcomes : FetchDone(p, outcome)
  \/ RemoveFromQueue(p)
  \/ UpdateQueue(p)
  \/ PostFormsSynced(p)
  \/ GetQueueFails(p)
  \/ StoreCallFails(p)

Enqueue == \E f \in Submissions, result \in StoreResults : OnMessage(QueueFormMessage(f), result)

Next ==
  \/ Enqueue
  \/ \E p \in Passes, tag \in SyncTags : SyncEvent(p, tag)
  \/ \E p \in Passes : PassStep(p)

Spec == Init /\ [][Next]_vars

\* no pass is between its sync event and its return
NoPassInFlight == \A p \in Passes : pc[p] = "idle"

\* sync events that arrive only when no pass is in flight
NextSeq ==
  \/ Enqueue
  \/ \E p \in Passes, tag \in SyncTags : NoPassInFlight /\ SyncEvent(p, tag)
  \/ \E p \in Passes : PassStep(p)

SeqSpec == Init /\ [][NextSeq]_vars

\* the queue-form messages of one form of the page
EnqueueSale ==
  \E f \in { g \in Submissions : g.formId = "saleForm" }, result \in StoreResults :
    OnMessage(QueueFormMessage(f), result)

\* the fetch calls issued so far, over the ids S
RECURSIVE FetchesIssued(_)
FetchesIssued(S) ==
  IF S = {} THEN 0
  ELSE LET id == CHOOSE x \in S : TRUE IN fetchCount[id] + FetchesIssued(S \ {id})

\* the passes between their sync event and their return
InFlight == { p \in Passes : pc[p] # "idle" }

\* overlapping passes over the submissions of one form; sync events stop once
\* the fetches issued and the passes in flight add up to MaxFetch
OverlapNext ==
  \/ EnqueueSale
  \/ \E p \in Passes, tag \in SyncTags :
       /\ FetchesIssued(Ids) + Cardinality(InFlight) < MaxFetch
       /\ SyncEvent(p, tag)
  \/ \E p \in Passes : PassStep(p)

OverlapSpec == Init /\ [][OverlapNext]_vars

EnqueueWithHeaders ==
  \E f \in Submissions, token \in StoredTokens, result \in StoreResults :
    OnMessage(QueueFormMessageWithHeaders(f, token), result)

\* the service worker receiving messages with and without a headers object
ReplayNext ==
  \/ Enqueue
  \/ EnqueueWithHeaders
  \/ \E p \in Passes, tag \in SyncTags : NoPassInFlight /\ SyncEvent(p, tag)
  \/ \E p \in Passes : PassStep(p)

ReplaySpec == Init /\ [][ReplayNext]_vars

\* the sync event keeps arriving and every started pass runs on: the browser
\* re-fires the sync, and every promise of a pass settles
\* and every store call that is tried again and again succeeds in the end
FairSeqSpec ==
  /\ SeqSpec
  /\ WF_vars(\E p \in Passes, tag \in SyncTags : NoPassInFlight /\ SyncEvent(p, tag))
  /\ \A p \in Passes :
       /\ SF_vars(GetQueueDone(p))
       /\ WF_vars(\E outcome \in FetchOutcomes : FetchDone(p, outcome))
       /\ SF_vars(RemoveFromQueue(p))
       /\ SF_vars(UpdateQueue(p))
       /\ WF_vars(PostFormsSynced(p))

\* ------------------------------------------------------------- foreground
\* the outcomes of a localforage getItem or setItem call
ForageResults == {"ok", "fails"}

\* the attempts at which OfflineManager.syncPendingForms gives a form up
FgMaxAttempts == 3

\* the entry queueForm pushes for formData at time t
QueuedForm(formData, t) ==
  [url |-> formData.url, method |-> formData.method, data |-> formData.data,
   formId |-> formData.formId, timestamp |-> t, attempts |-> 0,
   csrfToken |-> getCSRFToken]

\* Utils.showToast(message, type), the message being text with name filled in
Toast(text, name, type) ==
  [to |-> "toast", client |-> 0, of |-> Undefined,
   msg |-> [text |-> text, name |-> name, type |-> type]]

\* Utils.logInfo and Utils.logError, the message being text with name filled in
Log(text, name, level) ==
  [to |-> "log", client |-> 0, of |-> Undefined,
   msg |-> [text |-> text, name |-> name, type |-> level]]

\* navigator.serviceWorker.controller.postMessage(message, [port])
ToServiceWorker(message) ==
  [to |-> "serviceWorker", client |-> 0, of |-> Undefined, msg |-> message]

\* the value DataManager.submitForm resolves with, for its argument f
Returned(f, value) == [to |-> "caller", client |-> 0, of |-> f, msg |-> value]

\* DataManager.submitForm rejecting with the error fetchData threw
Thrown(f, error) == [to |-> "caller", client |-> 0, of |-> f, msg |-> [thrown |-> error]]

\* the error fetchData throws: its own for a response that is not ok, else the
\* one fetch or response.json() threw
ErrorOf(outcome) == IF outcome = "non2xx" THEN "HTTP error! status" ELSE "fetch error"

RequestQueued == [success |-> TRUE, message |-> "Request queued"]

QueuedToast == Toast("Request queued for sync when online", "", "info")

OnlineToast == Toast("Back online. Syncing data...", "", "success")

OfflineToast == Toast("You are now offline. Working in offline mode.", "", "warning")

QueuedLog == Log("Form queued for sync", "", "info")

QueueFailedLog == Log("Failed to queue form", "", "error")

SyncFailedLog == Log("Error syncing forms", "", "error")

FailedToast(formId) == Toast("Failed to sync form ... after max attempts", formId, "danger")

SyncedToast(formId) == Toast("Synced form ...", formId, "success")

FailedLog(formId) == Log("Failed to sync form ...", formId, "error")

\* the status Store.setOfflineStatus stores, inverted
setOfflineStatusInverted(status) == ~status

\* Store.setOfflineStatus(status): the value the offline flag takes
setOfflineStatus(status) == status

\* the submitForm executions that are inside queueForm
Queueing == { s \in Submits : spc[s] \in {"getItem", "setItem"} }

\* DataManager.submitForm(f) up to its first await that leaves the page
SubmitForm(s, f) ==
  /\ spc[s] = "idle"
  /\ offline => clock + Cardinality(Queueing) < MaxForms
  /\ spc' = [spc EXCEPT ![s] = IF offline THEN "getItem" ELSE "fetch"]
  /\ sform' = [sform EXCEPT ![s] = f]
  /\ emitted' = <<>>
  /\ UNCHANGED <<swVars, cacheVars, offline, controller, formQueue, clock, fpc, forms, fi, kept, squeue>>

\* what submitForm does once queueForm has returned
AfterQueueForm(f) == <<QueuedToast, Returned(f, RequestQueued)>>

\* queueForm: localforage.getItem settles, the entry is pushed, setItem is called
QfGetItemDone(s, result) ==
  /\ spc[s] = "getItem"
  /\ IF result = "ok"
       THEN /\ squeue' = [squeue EXCEPT ![s] = Append(formQueue, QueuedForm(sform[s], clock + 1))]
            /\ clock' = clock + 1
            /\ spc' = [spc EXCEPT ![s] = "setItem"]
            /\ emitted' = <<>>
            /\ UNCHANGED sform
       ELSE /\ spc' = [spc EXCEPT ![s] = "idle"]
            /\ sform' = [sform EXCEPT ![s] = Undefined]
            /\ emitted' = <<QueueFailedLog>> \o AfterQueueForm(sform[s])
            /\ UNCHANGED <<squeue, clock>>
  /\ UNCHANGED <<swVars, cacheVars, offline, controller, formQueue, fpc, forms, fi, kept>>

\* the notification left out
NotifyNever(f) == <<>>

\* the message queueForm posts when a service worker controls the page
Notify(f) == IF controller THEN <<ToServiceWorker(QueueFormMessage(f))>> ELSE <<>>

\* queueForm: localforage.setItem settles, the service worker is notified,
\* submitForm shows its toast and returns
QfSetItemDone(s, result) ==
  /\ spc[s] = "setItem"
  /\ IF result = "ok"
       THEN /\ formQueue' = squeue[s]
            /\ emitted' = <<QueuedLog>> \o Notify(sform[s]) \o AfterQueueForm(sform[s])
       ELSE /\ emitted' = <<QueueFailedLog>> \o AfterQueueForm(sform[s])
            /\ UNCHANGED formQueue
  /\ spc' = [spc EXCEPT ![s] = "idle"]
  /\ sform' = [sform EXCEPT ![s] = Undefined]
  /\ squeue' = [squeue EXCEPT ![s] = <<>>]
  /\ UNCHANGED <<swVars, cacheVars, offline, controller, clock, fpc, forms, fi, kept>>

\* submitForm's catch: toast, log, rethrow
OnFetchFailure(f, outcome) ==
  <<Log("Failed to fetch data from ...", f.url, "error"),
    Toast("Error submitting form", "", "danger"),
    Log("Form submission error for ...", f.formId, "error"), Thrown(f, ErrorOf(outcome))>>

\* submitForm online: the fetch of fetchData settles
LiveFetchDone(s, outcome) ==
  /\ spc[s] = "fetch"
  /\ emitted' = IF ResponseOk(outcome)
                  THEN <<Returned(sform[s], [success |-> TRUE, message |-> "response"])>>
                  ELSE OnFetchFailure(sform[s], outcome)
  /\ spc' = [spc EXCEPT ![s] = "idle"]
  /\ sform' = [sform EXCEPT ![s] = Undefined]
  /\ UNCHANGED <<swVars, cacheVars, offline, controller, formQueue, clock, fpc, forms, fi, kept, squeue>>

\* the loop with the forms at FgMaxAttempts skipped but left in the queue
RECURSIVE SyncLoopKeepingTerminal(_, _, _, _, _)
SyncLoopKeepingTerminal(fs, k, kp, out, off) ==
  IF k > Len(fs) THEN [i |-> k, kept |-> kp, out |-> out, fetching |-> FALSE]
  ELSE IF fs[k].attempts >= FgMaxAttempts
    THEN SyncLoopKeepingTerminal(fs, k + 1, kp, Append(out, FailedToast(fs[k].formId)), off)
  ELSE IF off
    THEN SyncLoopKeepingTerminal(fs, k + 1, kp \ {k}, Append(out, SyncedToast(fs[k].formId)), off)
  ELSE [i |-> k, kept |-> kp, out |-> out, fetching |-> TRUE]

\* the loop of syncPendingForms from form k on, up to the next fetch or the
\* end of the array: a form at FgMaxAttempts is filtered out with a toast; with
\* the offline flag set fetchData returns handleOfflineData's result and the
\* form is filtered out as synced
RECURSIVE SyncLoop(_, _, _, _, _)
SyncLoop(fs, k, kp, out, off) ==
  IF k > Len(fs) THEN [i |-> k, kept |-> kp, out |-> out, fetching |-> FALSE]
  ELSE IF fs[k].attempts >= FgMaxAttempts
    THEN SyncLoop(fs, k + 1, kp \ {k}, Append(out, FailedToast(fs[k].formId)), off)
  ELSE IF off
    THEN SyncLoop(fs, k + 1, kp \ {k}, Append(out, SyncedToast(fs[k].formId)), off)
  ELSE [i |-> k, kept |-> kp, out |-> out, fetching |-> TRUE]

\* syncPendingForms runs on from form k of the array fs
FgContinue(p, fs, k, kp, out) ==
  LET run == SyncLoop(fs, k, kp, out, offline)
  IN  /\ forms' = [forms EXCEPT ![p] = fs]
      /\ fi' = [fi EXCEPT ![p] = run.i]
      /\ kept' = [kept EXCEPT ![p] = run.kept]
      /\ fpc' = [fpc EXCEPT ![p] = IF run.fetching THEN "fetch" ELSE "setItem"]
      /\ emitted' = run.out

\* syncPendingForms returns: its locals are gone
FgReturn(p) ==
  /\ fpc' = [fpc EXCEPT ![p] = "idle"]
  /\ forms' = [forms EXCEPT ![p] = <<>>]
  /\ fi' = [fi EXCEPT ![p] = 0]
  /\ kept' = [kept EXCEPT ![p] = {}]

\* the online listener: flag, toast, ServiceWorkerManager.syncPendingForms()
OnlineEvent(p) ==
  /\ offline
  /\ fpc[p] = "idle"
  /\ offline' = setOfflineStatus(FALSE)
  /\ fpc' = [fpc EXCEPT ![p] = "getItem"]
  /\ emitted' = <<OnlineToast>>
  /\ UNCHANGED <<swVars, cacheVars, controller, formQueue, clock, forms, fi, kept, spc, sform, squeue>>

\* the offline listener: flag, toast
OfflineEvent ==
  /\ ~offline
  /\ offline' = setOfflineStatus(TRUE)
  /\ emitted' = <<OfflineToast>>
  /\ UNCHANGED <<swVars, cacheVars, controller, formQueue, clock, fpc, forms, fi, kept, spc, sform, squeue>>

\* the activate handler's clients.claim() reaches a page loaded without a controller
ClientsClaim ==
  /\ ~controller
  /\ controller' = TRUE
  /\ emitted' = <<>>
  /\ UNCHANGED <<swVars, cacheVars, offline, formQueue, clock, fpc, forms, fi, kept, spc, sform, squeue>>

\* syncPendingForms: localforage.getItem settles
FgGetItemDone(p, result) ==
  /\ fpc[p] = "getItem"
  /\ IF result = "ok" /\ Len(formQueue) > 0
       THEN FgContinue(p, formQueue, 1, DOMAIN formQueue, <<>>)
       ELSE /\ FgReturn(p)
            /\ emitted' = IF result = "ok" THEN <<>> ELSE <<SyncFailedLog>>
  /\ UNCHANGED <<swVars, cacheVars, offline, controller, formQueue, clock, spc, sform, squeue>>

\* syncPendingForms: the fetch of fetchData for form fi[p] settles
FgFetchDone(p, outcome) ==
  /\ fpc[p] = "fetch"
  /\ LET k == fi[p]
         form == forms[p][k]
     IN  IF ResponseOk(outcome)
           THEN FgContinue(p, forms[p], k + 1, kept[p] \ {k}, <<SyncedToast(form.formId)>>)
           ELSE FgContinue(p, [forms[p] EXCEPT ![k].attempts = @ + 1], k + 1, kept[p],
                           <<FailedLog(form.formId)>>)
  /\ UNCHANGED <<swVars, cacheVars, offline, controller, formQueue, clock, spc, sform, squeue>>

\* the forms of fs at the indices kp, in the order of fs
RECURSIVE Filtered(_, _, _)
Filtered(fs, kp, k) ==
  IF k > Len(fs) THEN <<>>
  ELSE (IF k \in kp THEN <<fs[k]>> ELSE <<>>) \o Filtered(fs, kp, k + 1)

\* syncPendingForms: localforage.setItem('formQueue', queue) settles
FgSetItemDone(p, result) ==
  /\ fpc[p] = "setItem"
  /\ IF result = "ok"
       THEN /\ formQueue' = Filtered(forms[p], kept[p], 1)
            /\ emitted' = <<>>
       ELSE /\ emitted' = <<SyncFailedLog>>
            /\ UNCHANGED formQueue
  /\ FgReturn(p)
  /\ UNCHANGED <<swVars, cacheVars, offline, controller, clock, spc, sform, squeue>>

\* the page alone: submissions, connectivity events and sync passes
FgNext ==
  \/ \E s \in Submits, f \in Submissions : SubmitForm(s, f)
  \/ \E s \in Submits, result \in ForageResults : QfGetItemDone(s, result)
  \/ \E s \in Submits, result \in ForageResults : QfSetItemDone(s, result)
  \/ \E s \in Submits, outcome \in FetchOutcomes : LiveFetchDone(s, outcome)
  \/ \E p \in FgPasses : OnlineEvent(p)
  \/ OfflineEvent
  \/ ClientsClaim
  \/ \E p \in FgPasses, result \in ForageResults : FgGetItemDone(p, result)
  \/ \E p \in FgPasses, outcome \in FetchOutcomes : FgFetchDone(p, outcome)
  \/ \E p \in FgPasses, result \in ForageResults : FgSetItemDone(p, result)

\* a page loaded online or offline, with or without a controlling service worker
FgStart ==
  /\ SwInit
  /\ FgInit
  /\ offline \in BOOLEAN
  /\ controller \in BOOLEAN

FgSpec == FgStart /\ [][FgNext]_vars

\* no syncPendingForms execution is between its call and its return
NoFgPassInFlight == \A p \in FgPasses : fpc[p] = "idle"

\* the page with reconnections that arrive only when no pass is in flight
FgNextSeq ==
  \/ \E s \in Submits, f \in Submissions : SubmitForm(s, f)
  \/ \E s \in Submits, result \in ForageResults : QfGetItemDone(s, result)
  \/ \E s \in Submits, result \in ForageResults : QfSetItemDone(s, result)
  \/ \E s \in Submits, outcome \in FetchOutcomes : LiveFetchDone(s, outcome)
  \/ \E p \in FgPasses : NoFgPassInFlight /\ OnlineEvent(p)
  \/ OfflineEvent
  \/ ClientsClaim
  \/ \E p \in FgPasses, result \in ForageResults : FgGetItemDone(p, result)
  \/ \E p \in FgPasses, outcome \in FetchOutcomes : FgFetchDone(p, outcome)
  \/ \E p \in FgPasses, result \in ForageResults : FgSetItemDone(p, result)

FgSeqSpec == FgStart /\ [][FgNextSeq]_vars

\* ------------------------------------------------------- fetch listener
\* lines 11-17
OFFLINE_METRICS_URLS ==
  {"/api/generateReports", "/api/getSalesRecords", "/api/getCustomers", "/api/getVendors",
   "/api/getExpensesRecords"}

\* the API requests of the page that reach the fetch listener
RequestUrls == {"/api/generateReports", "/api/getSalesRecords", "/api/addSale"}

\* line 188: the request is for one of the metrics urls
IsMetricsUrl(url) == url \in OFFLINE_METRICS_URLS

\* the response the network gives for a request that fetch resolves
NetworkResponse(url, outcome) ==
  [url |-> url, ok |-> ResponseOk(outcome), status |-> outcome, from |-> "network"]

\* lines 202 and 211: the status of the responses the listener makes itself
ServiceUnavailable == 503

\* the Response of lines 200-203 and 209-212
Unavailable(url) ==
  [url |-> url, ok |-> FALSE, status |-> ServiceUnavailable, from |-> "service worker"]

\* a response as caches.match returns it
Cached(response) == [response EXCEPT !.from = "cache"]

\* the listener's respondWith promise resolves with response
Responded(response) == [to |-> "page", client |-> 0, of |-> Undefined, msg |-> response]

\* a listener that takes every resolved response
ThrowsOnNotOkNever(response) == FALSE

\* line 192: a response that is not ok is thrown to the catch
ThrowsOnNotOk(response) == ~response.ok

\* a fetch event for an API request: the listener calls fetch (lines 187-190, 208)
FetchEvent(e, url) ==
  /\ hpc[e] = "idle"
  /\ hpc' = [hpc EXCEPT ![e] = "network"]
  /\ hurl' = [hurl EXCEPT ![e] = url]
  /\ emitted' = <<>>
  /\ UNCHANGED <<swVars, fgVars, cache, putting>>

\* the listener is done with fetch event e
Handled(e) ==
  /\ hpc' = [hpc EXCEPT ![e] = "idle"]
  /\ hurl' = [hurl EXCEPT ![e] = Undefined]

\* the fetch of the listener settles. For a metrics url an ok response is
\* handed to cache.put (not awaited) and returned, and a response that is not ok
\* or a throw goes to the catch, which calls caches.match (lines 191-199); for
\* another API url the response is returned as it is and a throw is answered
\* with the 503 of lines 208-213
NetworkDone(e, outcome) ==
  /\ hpc[e] = "network"
  /\ LET url == hurl[e]
         response == NetworkResponse(url, outcome)
     IN  IF IsMetricsUrl(url)
           THEN IF outcome = "throws" \/ ThrowsOnNotOk(response)
                  THEN /\ hpc' = [hpc EXCEPT ![e] = "match"]
                       /\ emitted' = <<>>
                       /\ UNCHANGED <<hurl, putting>>
                  ELSE /\ putting' = putting \cup {response}
                       /\ emitted' = <<Responded(response)>>
                       /\ Handled(e)
           ELSE /\ emitted' = <<Responded(IF outcome = "throws" THEN Unavailable(url)
                                           ELSE response)>>
                /\ Handled(e)
                /\ UNCHANGED putting
  /\ UNCHANGED <<swVars, fgVars, cache>>

\* a cache.put of line 195 settles: the response is stored under its request,
\* or the put rejects and nothing is stored
CachePutDone(response, result) ==
  /\ response \in putting
  /\ putting' = putting \ {response}
  /\ cache' = IF result = "ok"
               THEN [u \in DOMAIN cache \cup {response.url} |->
                       IF u = response.url THEN response ELSE cache[u]]
               ELSE cache
  /\ emitted' = <<>>
  /\ UNCHANGED <<swVars, fgVars, hpc, hurl>>

\* caches.match resolves: the cached response if there is one, else the 503
\* of lines 200-203
MatchDone(e) ==
  /\ hpc[e] = "match"
  /\ emitted' = <<Responded(IF hurl[e] \in DOMAIN cache THEN Cached(cache[hurl[e]])
                            ELSE Unavailable(hurl[e]))>>
  /\ Handled(e)
  /\ UNCHANGED <<swVars, fgVars, cache, putting>>

\* the fetch listener alone, for API requests
CacheNext ==
  \/ \E e \in FetchEvents, url \in RequestUrls : FetchEvent(e, url)
  \/ \E e \in FetchEvents, outcome \in FetchOutcomes : NetworkDone(e, outcome)
  \/ \E response \in putting, result \in ForageResults : CachePutDone(response, result)
  \/ \E e \in FetchEvents : MatchDone(e)

CacheSpec == Init /\ [][CacheNext]_vars

\* ------------------------------------------------ page and service worker
\* a queue-form message posted by the page has not reached the service worker
MessagePending == \E k \in DOMAIN emitted : emitted[k].to = "serviceWorker"

\* the message listener receives the message the page posted
Deliver ==
  \E k \in DOMAIN emitted :
    /\ emitted[k].to = "serviceWorker"
    /\ \E result \in StoreResults : OnMessage(emitted[k].msg, result)

\* the page and the service worker together, for one form submitted offline:
\* a posted message is delivered before anything else happens, and passes of
\* either side start when no pass of that side is in flight
CrossNext ==
  \/ MessagePending /\ Deliver
  \/ \E s \in Submits, f \in Submissions : ~MessagePending /\ clock = 0 /\ SubmitForm(s, f)
  \/ \E s \in Submits, result \in ForageResults : ~MessagePending /\ QfGetItemDone(s, result)
  \/ \E s \in Submits, result \in ForageResults : ~MessagePending /\ QfSetItemDone(s, result)
  \/ \E s \in Submits, outcome \in FetchOutcomes : ~MessagePending /\ LiveFetchDone(s, outcome)
  \/ \E p \in FgPasses : ~MessagePending /\ NoFgPassInFlight /\ OnlineEvent(p)
  \/ ~MessagePending /\ OfflineEvent
  \/ ~MessagePending /\ ClientsClaim
  \/ \E p \in FgPasses, result \in ForageResults : ~MessagePending /\ FgGetItemDone(p, result)
  \/ \E p \in FgPasses, outcome \in FetchOutcomes : ~MessagePending /\ FgFetchDone(p, outcome)
  \/ \E p \in FgPasses, result \in ForageResults : ~MessagePending /\ FgSetItemDone(p, result)
  \/ \E p \in Passes, tag \in SyncTags : ~MessagePending /\ NoPassInFlight /\ SyncEvent(p, tag)
  \/ \E p \in Passes : ~MessagePending /\ PassStep(p)

CrossSpec == FgStart /\ [][CrossNext]_vars

\* ------------------------------------------------------------------ claims
\* the ids for which pass p has received a fetch outcome
Replayed(p) == { responses[p][j].id : j \in DOMAIN responses[p] }

\* the outcome pass p received for record id
OutcomeOf(p, id) ==
  responses[p][CHOOSE j \in DOMAIN responses[p] : responses[p][j].id = id].outcome

\* pass p has completed both store calls of lines 286-287
StoreCallsDone(p) == pc[p] = "matchAll"

\* C1: a record that had attempts 3 when the pass read the queue is not
\* fetched in the pass and is absent from the store when the pass has
\* completed its store calls.
C1_TerminalRecordDropped ==
  \A p \in Passes : StoreCallsDone(p) =>
    \A k \in DOMAIN queue[p] :
      queue[p][k].attempts = 3 =>
        /\ queue[p][k].id \notin Replayed(p)
        /\ queue[p][k].id \notin DOMAIN store

\* C2: after a complete pass that no other pass overlaps, every record the
\* pass read is absent or present with attempts one above the value read.
C2_AbsentOrIncremented ==
  \A p \in Passes : StoreCallsDone(p) =>
    \A k \in DOMAIN queue[p] :
      \/ queue[p][k].id \notin DOMAIN store
      \/ store[queue[p][k].id].attempts = queue[p][k].attempts + 1

\* C3: in a pass, a record read with attempts < 3 whose fetch returned 2xx is
\* removed, and one whose fetch returned non-2xx or threw is kept with
\* attempts one higher, whatever happened to the other records of the pass.
C3_OutcomePerRecord ==
  \A p \in Passes : StoreCallsDone(p) =>
    \A k \in DOMAIN queue[p] :
      LET r == queue[p][k] IN
      r.attempts < 3 =>
        /\ r.id \in Replayed(p)
        /\ OutcomeOf(p, r.id) = "2xx" => r.id \notin DOMAIN store
        /\ OutcomeOf(p, r.id) \in {"non2xx", "throws"} =>
             /\ r.id \in DOMAIN store
             /\ store[r.id].attempts = r.attempts + 1

\* a pass over two records: the sale returned 2xx and is gone, the expense
\* returned non-2xx and is kept with attempts 1
C3_Witness ==
  \E p \in Passes :
    /\ StoreCallsDone(p)
    /\ Len(queue[p]) = 2
    /\ \E a, b \in DOMAIN queue[p] :
         /\ queue[p][a].url = "/api/addSale" /\ queue[p][a].attempts = 0
         /\ queue[p][b].url = "/api/addExpense" /\ queue[p][b].attempts = 0
         /\ OutcomeOf(p, queue[p][a].id) = "2xx"
         /\ OutcomeOf(p, queue[p][b].id) = "non2xx"
         /\ queue[p][a].id \notin DOMAIN store
         /\ queue[p][b].id \in DOMAIN store
         /\ store[queue[p][b].id].attempts = 1

\* pass p takes a step from its read of the queue while the store is empty
ReadsEmptyQueue(p) ==
  pc[p] = "getQueue" /\ DOMAIN store = {} /\ pc'[p] # pc[p] /\ emitted' # <<Rejected>>

\* C4 as stated: a pass that reads an empty queue issues no fetch and posts
\* forms-synced with count 0 and failed 0 to the clients.
C4_EmptyPassPostsSummary ==
  [][\A p \in Passes : ReadsEmptyQueue(p) =>
       /\ fetchCount' = fetchCount
       /\ \A c \in Clients : FormsSynced(c, 0, 0) \in Range(emitted')]_vars

\* C4 as amended: a pass that reads an empty queue issues no fetch and
\* returns at once without posting any message to the clients.
C4_EmptyPassSilent ==
  [][\A p \in Passes : ReadsEmptyQueue(p) =>
       /\ fetchCount' = fetchCount
       /\ pc'[p] = "idle"
       /\ emitted' = <<Fulfilled>>]_vars

\* a pass has just returned from an empty read, after records were queued
\* and synced away
C4_Witness == emitted = <<Fulfilled>> /\ DOMAIN store = {} /\ nextId > 1

\* C5: with the sync event firing again and again, every record in the store
\* is eventually absent from it.
C5_EventuallyAbsent ==
  \A id \in Ids : (id \in DOMAIN store) ~> (id \notin DOMAIN store)

\* C6: syncForms issues at most 3 fetch calls for a record id, whatever the
\* timing of the sync events.
C6_AtMostThreeFetches == \A id \in Ids : fetchCount[id] <= 3

\* C7: the attempts value stored under an id never decreases.
C7_AttemptsNeverDecrease ==
  [][\A id \in DOMAIN store \cap DOMAIN store' :
       store'[id].attempts >= store[id].attempts]_vars

\* C8: once a record id has been deleted from the store, no store operation
\* makes a record with that id present again.
C8_RemovedStaysRemoved ==
  [][\A id \in everIds : id \notin DOMAIN store => id \notin DOMAIN store']_vars

\* the latest step was a queue-form message answered with success
AddedBy(e) == e.to = "port" /\ e.msg.success

\* C9: a record added by addToQueue gets an id that no record has or ever had.
C9_FreshId ==
  [][(\E k \in DOMAIN emitted' : AddedBy(emitted'[k])) =>
       /\ Cardinality(DOMAIN store' \ DOMAIN store) = 1
       /\ (DOMAIN store' \ DOMAIN store) \cap everIds = {}]_vars

\* a record has just been added while an earlier id is no longer in the store
C9_Witness ==
  /\ \E k \in DOMAIN emitted : AddedBy(emitted[k])
  /\ \E id \in everIds : id \notin DOMAIN store

\* C10: right after a queue-form message is handled with success, getQueue
\* returns the new record with attempts 0 and an id no other record has,
\* and every record stored before.
C10_EnqueueThenGetAll ==
  [][\A k \in DOMAIN emitted' : AddedBy(emitted'[k]) =>
       LET q == GetAll(store')
           formData == emitted'[k].of
       IN  /\ \E n \in DOMAIN q :
                /\ q[n].attempts = 0
                /\ q[n].url = formData.url
                /\ q[n].formId = formData.formId
                /\ q[n].id \notin DOMAIN store
                /\ \A m \in DOMAIN q : m # n => q[m].id # q[n].id
           /\ \A r \in Range(GetAll(store)) : r \in Range(q)
           /\ Len(q) = Len(GetAll(store)) + 1]_vars

\* a record was just added next to a record that has failed a replay
C10_Witness ==
  /\ \E k \in DOMAIN emitted : AddedBy(emitted[k])
  /\ \E a, b \in DOMAIN store : store[a].attempts > 0 /\ store[b].attempts = 0

\* the positions in the effects of a step that are replies on a message port
PortReplies(es) == { k \in DOMAIN es : es[k].to = "port" }

\* C11: a queue-form message gets exactly one reply on its port: success
\* true if and only if the record was added, and success false with an error
\* when opening the store or the add failed, the store being unchanged.
C11_OneReplyPerMessage ==
  [][PortReplies(emitted') # {} =>
       /\ Cardinality(PortReplies(emitted')) = 1
       /\ \A k \in PortReplies(emitted') :
            LET reply == emitted'[k].msg
                new == DOMAIN store' \ DOMAIN store
            IN  /\ reply.success <=>
                     /\ Cardinality(new) = 1
                     /\ \A id \in new : store'[id].formId = emitted'[k].of.formId
                /\ ~reply.success =>
                     /\ "error" \in DOMAIN reply
                     /\ store' = store
                     /\ nextId' = nextId]_vars

\* an add has just failed and was answered with success false, with a record
\* of an earlier message in the store
C11_Witness ==
  /\ \E k \in PortReplies(emitted) :
       ~emitted[k].msg.success /\ emitted[k].msg.error = "requestFails"
  /\ DOMAIN store # {}

\* pass p has read a non-empty queue and returns in this step
PassEnds(p) == pc[p] \notin {"idle", "getQueue"} /\ pc'[p] = "idle"

\* the forms-synced messages a step posts to client c
SyncedTo(es, c) == { k \in DOMAIN es : es[k].to = "client" /\ es[k].client = c }

\* C12: a pass that read a non-empty queue ends by posting one forms-synced
\* message to every client, with count the number of records removed as
\* succeeded, failed the number classified as failed, and count + failed the
\* number of records read.
C12_SummaryPosted ==
  [][\A p \in Passes : PassEnds(p) =>
       \A c \in Clients :
         /\ Cardinality(SyncedTo(emitted', c)) = 1
         /\ \A k \in SyncedTo(emitted', c) :
              /\ emitted'[k].msg.type = "forms-synced"
              /\ emitted'[k].msg.count = Len(successfulSubmissions[p])
              /\ emitted'[k].msg.failed = Len(failedSubmissions[p])
              /\ emitted'[k].msg.count + emitted'[k].msg.failed = Len(queue[p])]_vars

\* the loop of pass p has evaluated every record
LoopDone(p) == pc[p] \in {"removeFromQueue", "updateQueue", "matchAll"}

\* the number of fetch outcomes pass p has received for record id
TimesReplayed(p, id) == Cardinality({ j \in DOMAIN responses[p] : responses[p][j].id = id })

\* C13: a failed replay does not stop the pass: when the loop is over, every
\* record read was either skipped as terminal or replayed exactly once.
C13_EveryRecordEvaluated ==
  \A p \in Passes : LoopDone(p) =>
    /\ i[p] = Len(queue[p]) + 1
    /\ Len(successfulSubmissions[p]) + Len(failedSubmissions[p]) = Len(queue[p])
    /\ \A k \in DOMAIN queue[p] :
         IF queue[p][k].attempts >= 3
         THEN TimesReplayed(p, queue[p][k].id) = 0 /\ queue[p][k] \in Range(failedSubmissions[p])
         ELSE TimesReplayed(p, queue[p][k].id) = 1

\* the replay of the first record threw and the second record was replayed
C13_Witness ==
  \E p \in Passes :
    /\ LoopDone(p)
    /\ Len(queue[p]) = 2
    /\ Len(responses[p]) = 2
    /\ responses[p][1].outcome = "throws"
    /\ responses[p][1].id = queue[p][1].id
    /\ responses[p][2].id = queue[p][2].id

\* pass p is between its read of the queue and its return
PastRead(p) == pc[p] \in {"fetch", "removeFromQueue", "updateQueue", "matchAll"}

\* the ids pass p read
QueueIds(p) == { queue[p][k].id : k \in DOMAIN queue[p] }

\* C14: a record added by a queue-form message while a pass is in flight
\* stays in the store with attempts 0 through every step up to the return
\* of that pass.
C14_MidPassEnqueueKept ==
  [][\A p \in Passes : PastRead(p) =>
       \A id \in DOMAIN store \ QueueIds(p) :
         /\ store[id].attempts = 0
         /\ id \in DOMAIN store'
         /\ store'[id] = store[id]]_vars

\* a pass has made both store calls, the second one a put of a failed record,
\* and a record it did not read is stored
C14_Witness ==
  \E p \in Passes :
    /\ pc[p] = "matchAll"
    /\ failedSubmissions[p] # <<>>
    /\ DOMAIN store \ QueueIds(p) # {}


\* the timestamps of the forms of a queue
Stamps(q) == { q[j].timestamp : j \in DOMAIN q }

\* syncPendingForms execution p settles its final setItem in this step
FinalWrite(p) == fpc[p] = "setItem" /\ fpc'[p] = "idle"

\* C15: a form that queueForm appended to formQueue after a syncPendingForms
\* pass read the queue and before that pass wrote it back is still in formQueue
\* once the pass has completed
C15_MidPassQueueFormKept ==
  [][\A p \in FgPasses :
       FinalWrite(p) => Stamps(formQueue) \ Stamps(forms[p]) \subseteq Stamps(formQueue')]_vars


\* syncForms execution p has read the store and not yet made its last store call
BetweenReadAndWrite(p) == pc[p] \in {"fetch", "removeFromQueue", "updateQueue"}

\* syncPendingForms execution p has read formQueue and not yet written it back
FgBetweenReadAndWrite(p) == fpc[p] \in {"fetch", "setItem"}

\* C16: at no time are two syncForms passes, or two syncPendingForms passes,
\* between their initial queue read and their final queue write
C16_PassesNeverOverlap ==
  /\ Cardinality({ p \in Passes : BetweenReadAndWrite(p) }) <= 1
  /\ Cardinality({ p \in FgPasses : FgBetweenReadAndWrite(p) }) <= 1


\* the syncPendingForms executions this step invokes
Invoked == { p \in FgPasses : fpc[p] = "idle" /\ fpc'[p] # "idle" }

\* C17: every online event sets the offline flag to false and invokes one sync
\* pass, every offline event sets the flag to true and invokes none, and no pass
\* is invoked by anything but an online event
C17_SyncOnReconnectOnly ==
  [][/\ OnlineToast \in Range(emitted') => offline' = FALSE /\ Cardinality(Invoked) = 1
     /\ OfflineToast \in Range(emitted') => offline' = TRUE /\ Invoked = {}
     /\ Invoked # {} => OnlineToast \in Range(emitted')]_vars

\* a second reconnection has just invoked a pass, after an earlier pass wrote back
C17_Witness ==
  /\ emitted = <<OnlineToast>>
  /\ ~offline
  /\ \E p \in FgPasses : fpc[p] = "getItem"
  /\ \E j \in DOMAIN formQueue : formQueue[j].attempts > 0


\* submitForm execution s, called with the offline flag set, returns in this step
QueueFormReturns(s) == spc[s] \in {"getItem", "setItem"} /\ spc'[s] = "idle"

\* entry e of formQueue is the submission f as queueForm stamps it
QueuedAs(e, f) ==
  /\ e.url = f.url /\ e.method = f.method /\ e.data = f.data /\ e.formId = f.formId
  /\ e.attempts = 0
  /\ e.csrfToken = getCSRFToken

\* C18: a submitForm call made while the offline flag is set issues no network
\* request and returns {success: true, message: 'Request queued'}; when its
\* localforage read and write succeed the submission is the last entry of
\* formQueue, with attempts 0, and if a service worker controls the page a
\* queue-form message carrying the submission is posted to it
C18_OfflineSubmitQueues ==
  [][\A s \in Submits :
       /\ spc[s] = "idle" /\ offline /\ spc'[s] # "idle" => spc'[s] = "getItem"
       /\ spc[s] \in {"getItem", "setItem"} => spc'[s] # "fetch"
       /\ QueueFormReturns(s) =>
            /\ Returned(sform[s], RequestQueued) \in Range(emitted')
            /\ QueueFailedLog \notin Range(emitted') =>
                 /\ formQueue' # <<>>
                 /\ QueuedAs(formQueue'[Len(formQueue')], sform[s])
                 /\ controller =>
                      ToServiceWorker(QueueFormMessage(sform[s])) \in Range(emitted')]_vars

\* a second submission has just been queued behind the first, and the service
\* worker was told
C18_Witness ==
  /\ offline
  /\ Len(formQueue) = 2
  /\ formQueue[2].attempts = 0
  /\ \E f \in Submissions :
       /\ QueuedAs(formQueue[2], f)
       /\ ToServiceWorker(QueueFormMessage(f)) \in Range(emitted)
       /\ Returned(f, RequestQueued) \in Range(emitted)


\* syncPendingForms execution p runs its loop in this step
LoopRuns(p) == fpc[p] \in {"getItem", "fetch"} /\ fpc'[p] \in {"fetch", "setItem"}

\* the indices the loop of p passes in this step without awaiting a fetch
Passed(p) == { k \in DOMAIN forms'[p] :
                 /\ k > (IF fpc[p] = "fetch" THEN fi[p] ELSE 0)
                 /\ k < fi'[p] }

\* the indices in the variable queue of p before this step
KeptBefore(p) == IF fpc[p] = "getItem" THEN DOMAIN forms'[p] ELSE kept[p]

\* C19: a form whose attempts is 3 or more when syncPendingForms evaluates it
\* is taken out of the queue without a fetch, with a failure toast naming its
\* formId, and is absent from the formQueue the pass writes; a form below 3
\* attempts leaves the queue only with a synced toast, and a failed fetch keeps
\* it with attempts one higher
C19_TerminalFormsDropped ==
  [][\A p \in FgPasses :
       /\ LoopRuns(p) =>
            /\ \A k \in Passed(p) :
                 forms'[p][k].attempts >= FgMaxAttempts =>
                   /\ k \notin kept'[p]
                   /\ FailedToast(forms'[p][k].formId) \in Range(emitted')
            /\ fpc'[p] = "fetch" => forms'[p][fi'[p]].attempts < FgMaxAttempts
            /\ \A k \in KeptBefore(p) \ kept'[p] :
                 forms'[p][k].attempts < FgMaxAttempts =>
                   SyncedToast(forms'[p][k].formId) \in Range(emitted')
            /\ fpc[p] = "fetch" /\ FailedLog(forms[p][fi[p]].formId) \in Range(emitted') =>
                 /\ fi[p] \in kept'[p]
                 /\ forms'[p][fi[p]].attempts = forms[p][fi[p]].attempts + 1
       /\ FinalWrite(p) /\ SyncFailedLog \notin Range(emitted') =>
            Stamps(formQueue') = { forms[p][k].timestamp : k \in kept[p] }]_vars

\* a pass has taken a form it found at 3 attempts out of its queue, shown the
\* toast, and is fetching the other form it read
C19_Witness ==
  \E p \in FgPasses :
       /\ fpc[p] = "fetch"
       /\ Len(forms[p]) = 2
       /\ \E k \in DOMAIN forms[p] :
            /\ forms[p][k].attempts >= FgMaxAttempts
            /\ k \notin kept[p]
            /\ k < fi[p]
            /\ FailedToast(forms[p][k].formId) \in Range(emitted)


\* C20: when submitForm is called with the offline flag clear and its fetch
\* throws, the submission is queued: queueForm is under way for it, or it has
\* been appended to formQueue
C20_FailedLiveSubmissionQueued ==
  [][\A s \in Submits :
       spc[s] = "fetch" /\ Thrown(sform[s], ErrorOf("throws")) \in Range(emitted') =>
         \/ spc'[s] = "getItem"
         \/ /\ Len(formQueue') = Len(formQueue) + 1
            /\ QueuedAs(formQueue'[Len(formQueue')], sform[s])]_vars


\* C21: no store error escapes a sync pass: the promise syncForms hands to
\* event.waitUntil is never rejected, whatever getQueue, removeFromQueue or
\* updateQueue did
C21_NoStoreErrorEscapes ==
  \A k \in DOMAIN emitted :
    emitted[k].to = "waitUntil" => emitted[k].msg.type = "fulfilled"


\* pass p issues the fetch for a record in this step
IssuesFetch(p) == pc'[p] = "fetch" /\ (pc[p] # "fetch" \/ i'[p] # i[p])

\* the requests a step sends to the network
Requests(es) == { k \in DOMAIN es : es[k].to = "network" }

\* C22: the replay request for a record carries Content-Type application/json
\* and an X-CSRF-Token equal to the record's csrfToken, whatever the record's
\* headers hold, and its body is the JSON text of the record's body
C22_ReplayRequestHeaders ==
  [][\A p \in Passes : IssuesFetch(p) =>
       LET formData == queue'[p][i'[p]]
       IN  /\ Cardinality(Requests(emitted')) = 1
           /\ \A k \in Requests(emitted') :
                /\ emitted'[k].msg.headers["Content-Type"] = "application/json"
                /\ emitted'[k].msg.headers["X-CSRF-Token"] = formData.csrfToken
                /\ emitted'[k].msg.body = JSONStringify(formData.body)]_vars


\* record r with its attempts counter blanked
ButAttempts(r) == [r EXCEPT !.attempts = 0]

\* the ids whose stored record this step changes in place
ModifiedInPlace == { id \in DOMAIN store \cap DOMAIN store' : store'[id] # store[id] }

\* C23: a record that stays in the store keeps its url, method, headers, body,
\* formId, timestamp, csrfToken and id, and only the updateQueue call of a sync
\* pass changes a stored record in place
C23_OnlyAttemptsChange ==
  [][/\ \A id \in DOMAIN store \cap DOMAIN store' :
          /\ ButAttempts(store'[id]) = ButAttempts(store[id])
          /\ store'[id].id = id
     /\ ModifiedInPlace # {} =>
          \E p \in Passes :
            /\ pc[p] = "updateQueue" /\ pc'[p] = "matchAll"
            /\ ModifiedInPlace \subseteq { r.id : r \in Range(failedSubmissions[p]) }]_vars

\* a pass has written a record back with a second failed attempt counted
C23_Witness ==
  \E p \in Passes :
    /\ pc[p] = "matchAll"
    /\ \E k \in DOMAIN failedSubmissions[p] :
         LET r == failedSubmissions[p][k]
         IN  /\ r.attempts = 2
             /\ r.id \in DOMAIN store
             /\ store[r.id] = r


\* C24: a pass issues its replay requests one at a time in ascending id order:
\* a step issues at most one request, only as a pass reaches a fetch; by then
\* every earlier record of the queue below the attempt bound has had its fetch
\* settled, and every record already fetched has a smaller id
C24_OneRequestAtATime ==
  [][/\ Cardinality(Requests(emitted')) <= 1
     /\ Requests(emitted') # {} => \E p \in Passes : IssuesFetch(p)
     /\ \A p \in Passes : IssuesFetch(p) =>
          LET q == queue'[p]
              formData == q[i'[p]]
          IN  /\ \A k \in Requests(emitted') : emitted'[k].msg = ReplayRequest(formData)
              /\ Requests(emitted') # {}
              /\ \A k \in 1..(i'[p] - 1) :
                   /\ q[k].id < formData.id
                   /\ q[k].attempts < MaxAttempts =>
                        \E j \in DOMAIN responses'[p] : responses'[p][j].id = q[k].id
              /\ \A j \in DOMAIN responses'[p] : responses'[p][j].id < formData.id
              /\ Len(responses'[p]) = Cardinality({ k \in 1..(i'[p] - 1) :
                                                     q[k].attempts < MaxAttempts })]_vars

\* the second request of a pass goes out after the first has settled
C24_Witness ==
  \E p \in Passes :
    /\ pc[p] = "fetch"
    /\ i[p] = 2
    /\ Len(responses[p]) = 1
    /\ Requests(emitted) # {}


\* C25: every record in the store has attempts between 0 and 3, whether or
\* not sync passes overlap
C25_AttemptsWithinBound ==
  \A id \in DOMAIN store : store[id].attempts \in 0..MaxAttempts


\* two overlapping passes have both written the same record back after its
\* third failed attempt
C25_Witness ==
  \E p, q \in Passes :
    /\ p # q
    /\ pc[p] = "matchAll"
    /\ pc[q] = "matchAll"
    /\ \E id \in DOMAIN store :
         /\ store[id].attempts = MaxAttempts
         /\ fetchCount[id] > MaxAttempts
         /\ \E k \in DOMAIN failedSubmissions[p] : failedSubmissions[p][k] = store[id]
         /\ \E k \in DOMAIN failedSubmissions[q] : failedSubmissions[q][k] = store[id]


\* C26: syncPendingForms takes a form below 3 attempts out of its queue only
\* when the fetch it issued for that form has settled; forms are not removed
\* unsent when the offline flag is set during the pass
C26_RemovedOnlyAfterFetch ==
  [][\A p \in FgPasses : LoopRuns(p) =>
       \A k \in KeptBefore(p) \ kept'[p] :
         forms'[p][k].attempts < FgMaxAttempts => fpc[p] = "fetch" /\ k = fi[p]]_vars


\* stored record r is the service worker's copy of the page's form
CopyOf(r, form) == r.url = form.url /\ r.formId = form.formId

\* C27: a form submitted once while offline gets at most one OK answer over
\* both queues: when the page's fetch for it is answered OK, no service worker
\* pass in flight has had an OK answer for its copy
C27_DeliveredAtMostOnce ==
  [][\A p \in FgPasses :
       (/\ clock = 1
        /\ fpc[p] = "fetch"
        /\ fi[p] \in kept[p] \ kept'[p]) =>
         \A q \in Passes : \A j \in DOMAIN responses[q] :
           (/\ ResponseOk(responses[q][j].outcome)
            /\ \E k \in DOMAIN queue[q] : /\ queue[q][k].id = responses[q][j].id
                                          /\ CopyOf(queue[q][k], forms[p][fi[p]]))
             => FALSE]_vars


\* C28: the replay request the service worker issues for a form submitted
\* offline through submitForm({url, method, data, formId}) has the JSON text of
\* the submitted data as its body
C28_PayloadPreserved ==
  [][\A p \in Passes : IssuesFetch(p) =>
       \A k \in Requests(emitted') : \A f \in Submissions :
         (f.url = queue'[p][i'[p]].url /\ f.formId = queue'[p][i'[p]].formId) =>
           emitted'[k].msg.body = JSONStringify(f.data)]_vars


\* C29: when submitForm returns {success: true, message: 'Request queued'} the
\* submission is in formQueue; a failed read or write of the queue is not
\* reported as a queued request
C29_QueuedMeansStored ==
  [][\A s \in Submits :
       (QueueFormReturns(s) /\ Returned(sform[s], RequestQueued) \in Range(emitted')) =>
         /\ \E j \in DOMAIN formQueue' :
              /\ formQueue'[j].url = sform[s].url
              /\ formQueue'[j].data = sform[s].data
              /\ formQueue'[j].formId = sform[s].formId
         /\ QueueFailedLog \notin Range(emitted')]_vars


\* the answers the listener gives at this step for metrics urls
MetricsAnswers(es) ==
  {es[k].msg : k \in {j \in DOMAIN es : es[j].to = "page" /\ IsMetricsUrl(es[j].msg.url)}}

\* C30: for a request to a metrics url the fetch listener hands a response to
\* the API cache only when the network response is ok, so every response
\* being put and every cached response is an ok one; when its fetch settles
\* it either answers with the ok network response or, without answering and
\* without caching, goes on to look the request up in the cache; that lookup
\* answers with the cached response of the request when there is one and with
\* a 503 response otherwise; no answer is a network response that is not ok
C30_MetricsNetworkFirst ==
  [][ /\ \A r \in putting' : r.ok /\ r.from = "network" /\ IsMetricsUrl(r.url)
      /\ \A u \in DOMAIN cache' : cache'[u].ok /\ cache'[u].url = u
      /\ \A r \in MetricsAnswers(emitted') : r.from = "network" => r.ok
      /\ \A e \in FetchEvents :
           /\ (hpc[e] = "network" /\ hpc'[e] # "network" /\ IsMetricsUrl(hurl[e])) =>
                 \/ /\ hpc'[e] = "match"
                    /\ emitted' = <<>>
                    /\ putting' = putting
                    /\ cache' = cache
                 \/ /\ hpc'[e] = "idle"
                    /\ \E r \in putting' :
                         /\ r.ok /\ r.url = hurl[e] /\ r.from = "network"
                         /\ emitted' = <<Responded(r)>>
           /\ (hpc[e] = "match" /\ hpc'[e] # "match") =>
                 /\ putting' = putting
                 /\ cache' = cache
                 /\ emitted' = <<Responded(IF hurl[e] \in DOMAIN cache
                                             THEN Cached(cache[hurl[e]])
                                             ELSE Unavailable(hurl[e]))>>
    ]_vars

\* a request whose fetch failed has just been answered from the cache, while
\* another request whose fetch failed is about to be answered
C30_Witness ==
  /\ Len(emitted) = 1
  /\ emitted[1].to = "page"
  /\ emitted[1].msg.from = "cache"
  /\ emitted[1].msg.ok
  /\ \E e \in FetchEvents : hpc[e] = "match" /\ hurl[e] \notin DOMAIN cache
====
